---- MODULE Spec2Model ----
(***************************************************************************)
(* The Economic Order Quantity model of                                    *)
(* inventoryanalytics/lotsizing/deterministic/constant/eoq.py.             *)
(*                                                                         *)
(* Numbers.  The program computes on floating-point numbers.  The model    *)
(* computes on exact rationals n/d over arbitrary-precision integers, so   *)
(* that tolerances such as 1e-8 and 1e-6 keep their values: a rational is  *)
(* a record [n |-> integer, d |-> natural]; d = 0 stands for the values a  *)
(* numpy division by zero produces (n > 0: +inf, n < 0: -inf, n = 0: nan). *)
(* Rounding of the floating-point operations is not modelled.              *)
(***************************************************************************)
EXTENDS Integers, Sequences, FiniteSets, Bags, TLC

----------------------------------------------------------------------------
(* Arbitrary-precision naturals: little-endian sequences of limbs in base  *)
(* Base, without leading (high) zero limbs; <<>> is zero.  A sum of many   *)
(* integers is taken as the cardinality of a bag.                          *)

Base == 1000

Min2(i, j) == IF i <= j THEN i ELSE j
Max2(i, j) == IF i >= j THEN i ELSE j

RECURSIVE NatOf(_)
NatOf(k) == IF k = 0 THEN <<>> ELSE <<k % Base>> \o NatOf(k \div Base)

\* a without its high zero limbs
Strip(a) ==
    IF a = <<>> THEN <<>>
    ELSE IF a[Len(a)] # 0 THEN a
    ELSE LET nz == { k \in 1 .. Len(a) : a[k] # 0 }
         IN  IF nz = {} THEN <<>>
             ELSE SubSeq(a, 1, CHOOSE k \in nz : \A j \in nz : j <= k)

\* the number of low zero limbs of a, a not zero
LowZeros(a) ==
    IF a[1] # 0 THEN 0
    ELSE (CHOOSE k \in 1 .. Len(a) : a[k] # 0 /\ \A j \in 1 .. k - 1 : a[j] = 0) - 1

Limb(a, i) == IF i <= Len(a) THEN a[i] ELSE 0

\* Carries and borrows: s holds limbs of any size and sign, its value
\* s[1] + s[2]*Base + ... is a natural below Base^Len(s); the result holds the
\* same value in limbs 0 .. Base - 1.
RECURSIVE Carry(_)
Carry(s) ==
    IF \A k \in 1 .. Len(s) : s[k] >= 0 /\ s[k] < Base THEN s
    ELSE Carry([k \in 1 .. Len(s) |->
                    (s[k] % Base) + (IF k = 1 THEN 0 ELSE s[k - 1] \div Base)] \o <<>>)

NatAdd(a, b) ==
    Strip(Carry([k \in 1 .. Max2(Len(a), Len(b)) + 1 |-> Limb(a, k) + Limb(b, k)] \o <<>>))

\* a - b for a >= b
NatSub(a, b) ==
    Strip(Carry([k \in 1 .. Len(a) |-> a[k] - Limb(b, k)] \o <<>>))

\* -1, 0, 1 as a <, =, > b
NatCmp(a, b) ==
    IF Len(a) < Len(b) THEN -1
    ELSE IF Len(a) > Len(b) THEN 1
    ELSE LET df == { k \in 1 .. Len(a) : a[k] # b[k] }
         IN  IF df = {} THEN 0
             ELSE LET top == CHOOSE k \in df : \A j \in df : j <= k
                  IN  IF a[top] < b[top] THEN -1 ELSE 1

\* the k-th column of the long multiplication of a by b
Column(a, b, k) ==
    LET lo == Max2(1, k + 1 - Len(b))
        hi == Min2(Len(a), k)
    IN  BagCardinality([i \in lo .. hi |-> a[i] * b[k + 1 - i] + 1]) - (hi - lo + 1)

\* a * b for a and b without low zero limbs
LongMul(a, b) ==
    Strip(Carry([k \in 1 .. Len(a) + Len(b) |-> Column(a, b, k)] \o <<>>))

\* a * b: the low zero limbs of a and b are those of the product
NatMul(a, b) ==
    IF a = <<>> \/ b = <<>> THEN <<>>
    ELSE LET za == LowZeros(a)
             zb == LowZeros(b)
         IN  [k \in 1 .. za + zb |-> 0]
                 \o LongMul(SubSeq(a, za + 1, Len(a)), SubSeq(b, zb + 1, Len(b)))

----------------------------------------------------------------------------
(* Signed integers: [s |-> -1 | 0 | 1, m |-> magnitude].                   *)

Int0 == [s |-> 0, m |-> <<>>]

IntOf(k) ==
    IF k = 0 THEN Int0
    ELSE IF k > 0 THEN [s |-> 1, m |-> NatOf(k)]
    ELSE [s |-> -1, m |-> NatOf(-k)]

IntNeg(a) == [s |-> -a.s, m |-> a.m]

IntAdd(a, b) ==
    IF a.s = 0 THEN b
    ELSE IF b.s = 0 THEN a
    ELSE IF a.s = b.s THEN [s |-> a.s, m |-> NatAdd(a.m, b.m)]
    ELSE LET c == NatCmp(a.m, b.m)
         IN  IF c = 0 THEN Int0
             ELSE IF c > 0 THEN [s |-> a.s, m |-> NatSub(a.m, b.m)]
             ELSE [s |-> b.s, m |-> NatSub(b.m, a.m)]

IntMul(a, b) ==
    IF a.s = 0 \/ b.s = 0 THEN Int0
    ELSE [s |-> a.s * b.s, m |-> NatMul(a.m, b.m)]

\* the integer a times the natural n
IntScale(a, n) ==
    IF a.s = 0 \/ n = <<>> THEN Int0 ELSE [s |-> a.s, m |-> NatMul(a.m, n)]

\* -1, 0, 1 as a <, =, > b
IntCmp(a, b) ==
    IF a.s # b.s THEN (IF a.s < b.s THEN -1 ELSE 1)
    ELSE IF a.s = 0 THEN 0
    ELSE a.s * NatCmp(a.m, b.m)

----------------------------------------------------------------------------
(* Rationals [n |-> integer, d |-> natural].  Norm drops the low zero      *)
(* limbs n and d share, so sums and halves of decimals (denominator a      *)
(* power of Base) stay short.                                              *)

Norm(n, d) ==
    IF d = <<>> THEN [n |-> IntOf(n.s), d |-> <<>>]
    ELSE IF n.s = 0 THEN [n |-> Int0, d |-> <<1>>]
    ELSE LET z == Min2(LowZeros(n.m), LowZeros(d))
         IN  IF z = 0 THEN [n |-> n, d |-> d]
             ELSE [n |-> [s |-> n.s, m |-> SubSeq(n.m, z + 1, Len(n.m))],
                   d |-> SubSeq(d, z + 1, Len(d))]

\* the rational a/b of two small integers, b > 0
RatOf(a, b) == Norm(IntOf(a), NatOf(b))

IsNaN(a) == a.d = <<>> /\ a.n.s = 0
IsInf(a) == a.d = <<>> /\ a.n.s # 0
IsFinite(a) == a.d # <<>>
Sign(a) == a.n.s

RNeg(a) == [n |-> IntNeg(a.n), d |-> a.d]

RAdd(a, b) ==
    IF a.d = b.d THEN Norm(IntAdd(a.n, b.n), a.d)
    ELSE Norm(IntAdd(IntScale(a.n, b.d), IntScale(b.n, a.d)), NatMul(a.d, b.d))

RSub(a, b) == RAdd(a, RNeg(b))

RMul(a, b) == Norm(IntMul(a.n, b.n), NatMul(a.d, b.d))

\* a / b as numpy divides: x/0 is +inf or -inf, 0/0 is nan, x/inf is 0
RDiv(a, b) ==
    IF b.n.s >= 0 THEN Norm(IntScale(a.n, b.d), NatMul(a.d, b.n.m))
    ELSE Norm(IntNeg(IntScale(a.n, b.d)), NatMul(a.d, b.n.m))

\* -1, 0, 1 as a <, =, > b, for a and b not nan
RCmp(a, b) ==
    IF a.d = b.d THEN IntCmp(a.n, b.n)
    ELSE IntCmp(IntScale(a.n, b.d), IntScale(b.n, a.d))

\* comparisons as IEEE 754 makes them: false when either side is nan
RLess(a, b) == ~IsNaN(a) /\ ~IsNaN(b) /\ RCmp(a, b) < 0
RLeq(a, b) == ~IsNaN(a) /\ ~IsNaN(b) /\ RCmp(a, b) <= 0
REq(a, b) == ~IsNaN(a) /\ ~IsNaN(b) /\ RCmp(a, b) = 0

RAbs(a) == IF a.n.s < 0 THEN RNeg(a) ELSE a

----------------------------------------------------------------------------
(* The eoq object and its callers.                                         *)

VARIABLES
    K, h, d, v,     \* the fields of the eoq instance (rationals)
    ctor,           \* the arguments the instance was constructed with
    pc,             \* "idle", or "search" while minimize() is iterating
    call,           \* the method being executed or last executed, with its argument
    sim, fsim,      \* minimize(): the simplex and the objective at its vertices
    iterations,     \* minimize(): the iteration counter
    fcalls,         \* minimize(): the number of objective evaluations
    probes,         \* minimize(): the points evaluated by the last step
    res,            \* the OptimizeResult of the last finished minimize()
    ret,            \* what the last finished call gave back to its caller
    prev,           \* what the same evaluator call gave back just before, if made
    Qopt            \* the caller's copy of the first compute_eoq() result, with
                    \* the status of the minimize() that produced it

vars == <<K, h, d, v, ctor, pc, call, sim, fsim, iterations, fcalls, probes,
          res, ret, prev, Qopt>>

Zero == RatOf(0, 1)
One == RatOf(1, 1)
Two == RatOf(2, 1)
Half == RatOf(500, 1000)      \* 0.5, as a decimal

(* eoq.co_fixed: K/(Q/d) *)
co_fixed(Q) == RDiv(K, RDiv(Q, d))

(* eoq.co_variable: d*v *)
co_variable(Q) == RMul(d, v)

(* eoq.ch: h*Q/2 *)
ch(Q) == RDiv(RMul(h, Q), Two)

(* eoq.relevant_cost *)
relevant_cost(Q) == RAdd(co_fixed(Q), ch(Q))

(* eoq.cost *)
cost(Q) == RAdd(RAdd(co_fixed(Q), co_variable(Q)), ch(Q))

(* eoq.reorder_point *)
reorder_point(lead_time) == RMul(d, lead_time)

(* K/(Q/d) on Python numbers raises ZeroDivisionError where numpy gives    *)
(* inf or nan: when d is 0, or when Q/d is 0.                              *)
ZeroDivision(Q) == Sign(d) = 0 \/ Sign(RDiv(Q, d)) = 0

----------------------------------------------------------------------------
(* scipy.optimize.minimize(fun, x0, method='nelder-mead',                  *)
(* options={'xtol': 1e-8}) for one variable (N = 1).                       *)

x0 == 1

\* a variant of xtol: the x-tolerance 1e-2
xtol_loose == RatOf(10, 1000)

xtol == RatOf(10, 1000000000)
fatol == RatOf(100, 1000000)
rho == 1
chi == 2
psi == Half
sigma == Half
nonzdelt == RatOf(50, 1000)
maxiter == 200
maxfun == 200

\* np.argsort on two values: the smaller first, nan last, ties in place
Swap(f) == RLess(f[2], f[1]) \/ (IsNaN(f[1]) /\ ~IsNaN(f[2]))
Sorted(s, f) ==
    IF Swap(f) THEN [s |-> <<s[2], s[1]>>, f |-> <<f[2], f[1]>>]
    ELSE [s |-> s, f |-> f]

\* the initial simplex: x0 and (1 + nonzdelt)*x0
InitialSimplex == <<RatOf(x0, 1), RMul(RAdd(One, nonzdelt), RatOf(x0, 1))>>

\* a variant of BudgetLeft: a loop without maxiter and maxfun
BudgetLeft_unbounded == TRUE

\* the loop's guard
BudgetLeft == fcalls < maxfun /\ iterations < maxiter

\* the loop's break
Converged ==
    /\ RLeq(RAbs(RSub(sim[2], sim[1])), xtol)
    /\ RLeq(RAbs(RSub(fsim[1], fsim[2])), fatol)

\* The points a pass of the loop may evaluate, from the sorted simplex
\* <<best, worst>> (xbar is the best vertex when N = 1).
Reflected(s) == RSub(RMul(RatOf(1 + rho, 1), s[1]), RMul(RatOf(rho, 1), s[2]))
Expanded(s) == RSub(RMul(RatOf(1 + rho * chi, 1), s[1]), RMul(RatOf(rho * chi, 1), s[2]))
ContractedOutside(s) ==
    RSub(RMul(RAdd(One, RMul(psi, RatOf(rho, 1))), s[1]),
         RMul(RMul(psi, RatOf(rho, 1)), s[2]))
ContractedInside(s) == RAdd(RMul(RSub(One, psi), s[1]), RMul(psi, s[2]))
Shrunk(s) == RAdd(s[1], RMul(sigma, RSub(s[2], s[1])))

\* the objective evaluated at x
At(x) == [x |-> x, f |-> relevant_cost(x)]

\* the simplex with its worst vertex replaced by p, after the evaluations at
\* the points before, then at p
Accept(s, f, before, p) ==
    [s |-> <<s[1], p.x>>, f |-> <<f[1], p.f>>, at |-> before \o <<p.x>>]

\* doshrink
Shrink(s, f, before) == Accept(s, f, before, At(Shrunk(s)))

\* xr was no better than the best vertex: contractions, xc outside or xcc inside
Contraction(s, f, r, c) ==
    IF RLess(r.f, f[2])
    THEN IF RLeq(c.f, r.f) THEN Accept(s, f, <<r.x>>, c) ELSE Shrink(s, f, <<r.x, c.x>>)
    ELSE IF RLess(c.f, f[2]) THEN Accept(s, f, <<r.x>>, c) ELSE Shrink(s, f, <<r.x, c.x>>)

\* xr was better than the best vertex: the better of xr and xe
Expansion(s, f, r, e) ==
    IF RLess(e.f, r.f) THEN Accept(s, f, <<r.x>>, e)
    ELSE [s |-> <<s[1], r.x>>, f |-> <<f[1], r.f>>, at |-> <<r.x, e.x>>]

\* the pass after the reflection point r was evaluated
Reflection(s, f, r) ==
    IF RLess(r.f, f[1]) THEN Expansion(s, f, r, At(Expanded(s)))
    ELSE IF RLess(r.f, f[1])      \* fsim[-2] is fsim[0] when N = 1
         THEN Accept(s, f, <<>>, r)
         ELSE Contraction(s, f, r,
                          At(IF RLess(r.f, f[2]) THEN ContractedOutside(s)
                             ELSE ContractedInside(s)))

\* One pass of the loop's body on the sorted simplex <<best, worst>>: the new
\* simplex before sorting, and the points evaluated, in order.
Body(s, f) == Reflection(s, f, At(Reflected(s)))

----------------------------------------------------------------------------
(* The methods built on compute_eoq(), as functions of the value eoq that  *)
(* their own call of compute_eoq() returned.                               *)

(* eoq.compute_eoq: res.x[0] *)
compute_eoq(r) == r.x

\* a variant of coverage: the quantity times the demand rate
coverage_times_d(eoq) == RMul(eoq, d)

(* eoq.coverage *)
coverage(eoq) == RDiv(eoq, d)

(* eoq.average_inventory *)
average_inventory(eoq) == RDiv(eoq, Two)

(* eoq.itr *)
itr(eoq) == RDiv(RMul(Two, d), eoq)

(* eoq.sensitivity_to_Q *)
sensitivity_to_Q(Q, eoq) == RMul(Half, RAdd(RDiv(eoq, Q), RDiv(Q, eoq)))

\* what the method call.op returns once its minimize() call gave r
Built(c, r) ==
    LET eoq == compute_eoq(r)
    IN  CASE c.op = "compute_eoq" -> eoq
          [] c.op = "coverage" -> coverage(eoq)
          [] c.op = "average_inventory" -> average_inventory(eoq)
          [] c.op = "itr" -> itr(eoq)
          [] c.op = "sensitivity_to_Q" -> sensitivity_to_Q(c.arg, eoq)

\* what a cost evaluator returns for the argument Q
Evaluated(op, Q) ==
    CASE op = "relevant_cost" -> relevant_cost(Q)
      [] op = "cost" -> cost(Q)
      [] op = "co_fixed" -> co_fixed(Q)
      [] op = "co_variable" -> co_variable(Q)
      [] op = "ch" -> ch(Q)
      [] op = "reorder_point" -> reorder_point(Q)

\* the evaluators that divide by Q/d
Dividing == {"relevant_cost", "cost", "co_fixed"}

----------------------------------------------------------------------------
(* Bounds and inputs.                                                      *)

MaxQ == 2           \* quantities and lead times are the integers -1 .. MaxQ
MaxFactor == 3      \* multiples Qopt*k and Qopt/k for k in 1 .. MaxFactor

\* <<K, h, d, v>>: the sample instance of the source, instances whose
\* sqrt(2*K*d/h) is above, at and below the start point x0, and instances with
\* a parameter that is zero or negative
Instances ==
    { <<100, 1, 10, 2>>, <<1, 1, 1, 1>>, <<2, 1, 1, 3>>, <<3, 1, 2, 5>>,
      <<1, 2, 1, 1>>, <<1, 3, 1, 1>>, <<1, 16, 1, 1>>, <<1, 100, 1, 2>>,
      <<0, 1, 1, 1>>, <<1, 1, 0, 1>>, <<1, 0, 1, 1>>, <<1, -1, 1, 1>> }

QArgs == { RatOf(q, 1) : q \in -1 .. MaxQ }
PosArgs == { RatOf(q, 1) : q \in 1 .. MaxQ }
Factors == { RatOf(k, 1) : k \in 1 .. MaxFactor } \cup { RatOf(1, k) : k \in 1 .. MaxFactor }

\* quantities next to Qopt: at the relative distances 1e-10, inside the search's
\* x-tolerance, and 4e-6
Eps6 == RatOf(1, 1000000)
Eps10 == RMul(RatOf(100, 1000000), Eps6)
Near == { RAdd(One, Eps10), RSub(One, Eps10),
          RAdd(One, RMul(RatOf(4, 1), Eps6)), RSub(One, RMul(RatOf(4, 1), Eps6)) }

----------------------------------------------------------------------------
(* Actions.                                                                *)

NoCall == [op |-> "none", arg |-> Zero]
NoRet == [op |-> "none", arg |-> Zero, ok |-> FALSE, val |-> Zero, err |-> ""]
NoRes == [set |-> FALSE, x |-> Zero, status |-> 0, nit |-> 0, nfev |-> 0]
NoVal == [set |-> FALSE, val |-> Zero]
NoQopt == [set |-> FALSE, val |-> Zero, status |-> 0]

\* the caller keeps what the same call returned last time, to compare
Remember(op, arg) ==
    IF ret.op = op /\ ret.arg = arg /\ ret.ok
    THEN [set |-> TRUE, val |-> ret.val] ELSE NoVal

(* eoq.__init__ *)
Init ==
    /\ \E i \in Instances :
        /\ K = RatOf(i[1], 1)
        /\ h = RatOf(i[2], 1)
        /\ d = RatOf(i[3], 1)
        /\ v = RatOf(i[4], 1)
        /\ ctor = <<RatOf(i[1], 1), RatOf(i[2], 1), RatOf(i[3], 1), RatOf(i[4], 1)>>
    /\ pc = "idle"
    /\ call = NoCall
    /\ sim = <<>>
    /\ fsim = <<>>
    /\ iterations = 0
    /\ fcalls = 0
    /\ probes = <<>>
    /\ res = NoRes
    /\ ret = NoRet
    /\ prev = NoVal
    /\ Qopt = NoQopt

\* minimize() up to its loop, from the initial simplex s0 and its sorted form o
Start(op, arg, s0, o) ==
    /\ pc = "idle"
    /\ pc' = "search"
    /\ call' = [op |-> op, arg |-> arg]
    /\ prev' = NoVal
    /\ ret' = NoRet
    /\ res' = NoRes
    /\ sim' = o.s
    /\ fsim' = o.f
    /\ iterations' = 1
    /\ fcalls' = 2
    /\ probes' = s0
    /\ UNCHANGED <<K, h, d, v, ctor, Qopt>>

\* the initial simplex s0, evaluated and sorted
FirstSimplex(s0) == Sorted(s0, <<relevant_cost(s0[1]), relevant_cost(s0[2])>>)

\* the initial simplex of a search that starts from the last result of
\* compute_eoq() instead of x0
WarmSimplex ==
    IF Qopt.set THEN <<Qopt.val, RMul(RAdd(One, nonzdelt), Qopt.val)>>
    ELSE InitialSimplex

\* a variant of StartSearch: a warm start
StartSearch_warm(op, arg) == Start(op, arg, WarmSimplex, FirstSimplex(WarmSimplex))

\* minimize() up to its loop: the initial simplex, evaluated and sorted
StartSearch(op, arg) == Start(op, arg, InitialSimplex, FirstSimplex(InitialSimplex))

Call_compute_eoq == StartSearch("compute_eoq", Zero)
Call_coverage == StartSearch("coverage", Zero)
Call_average_inventory == StartSearch("average_inventory", Zero)
Call_itr == StartSearch("itr", Zero)
Call_sensitivity_to_Q ==
    \E Q \in PosArgs \cup (IF Qopt.set THEN { RMul(Qopt.val, f) : f \in Factors } ELSE {}) :
        StartSearch("sensitivity_to_Q", Q)

\* the loop's body has given b: sort, count, next pass
Advance(b, o) ==
    /\ sim' = o.s
    /\ fsim' = o.f
    /\ fcalls' = fcalls + Len(b.at)
    /\ probes' = b.at
    /\ iterations' = iterations + 1
    /\ UNCHANGED <<K, h, d, v, ctor, pc, call, res, ret, prev, Qopt>>

\* one iteration of minimize()'s loop
Iterate ==
    /\ pc = "search"
    /\ BudgetLeft
    /\ ~Converged
    /\ \E b \in {Body(sim, fsim)} : Advance(b, Sorted(b.s, b.f))

\* the status minimize() reports
Status == IF fcalls >= maxfun THEN 1 ELSE IF iterations >= maxiter THEN 2 ELSE 0

\* minimize() leaves its loop and the method returns
Return ==
    /\ pc = "search"
    /\ ~(BudgetLeft /\ ~Converged)
    /\ LET r == [set |-> TRUE, x |-> sim[1], status |-> Status,
                 nit |-> iterations, nfev |-> fcalls]
       IN  /\ res' = r
           /\ ret' = [op |-> call.op, arg |-> call.arg, ok |-> TRUE,
                      val |-> Built(call, r), err |-> ""]
           /\ Qopt' = IF call.op = "compute_eoq" /\ ~Qopt.set
                      THEN [set |-> TRUE, val |-> compute_eoq(r), status |-> r.status]
                      ELSE Qopt
    /\ pc' = "idle"
    /\ sim' = <<>>
    /\ fsim' = <<>>
    /\ iterations' = 0
    /\ fcalls' = 0
    /\ probes' = <<>>
    /\ UNCHANGED <<K, h, d, v, ctor, call, prev>>

\* a cost evaluator called with the Python number Q
Evaluate(op, Q) ==
    /\ pc = "idle"
    /\ call' = [op |-> op, arg |-> Q]
    /\ prev' = Remember(op, Q)
    /\ ret' = IF op \in Dividing /\ ZeroDivision(Q)
              THEN [op |-> op, arg |-> Q, ok |-> FALSE, val |-> Zero,
                    err |-> "ZeroDivisionError"]
              ELSE [op |-> op, arg |-> Q, ok |-> TRUE, val |-> Evaluated(op, Q),
                    err |-> ""]
    /\ UNCHANGED <<K, h, d, v, ctor, pc, sim, fsim, iterations, fcalls, probes,
                   res, Qopt>>

Call_relevant_cost ==
    \E Q \in QArgs \cup (IF Qopt.set
                         THEN { RMul(Qopt.val, f) : f \in Factors \cup Near }
                         ELSE {}) :
        Evaluate("relevant_cost", Q)
Call_cost == \E Q \in QArgs : Evaluate("cost", Q)
Call_co_fixed == \E Q \in QArgs : Evaluate("co_fixed", Q)
Call_co_variable == \E Q \in QArgs : Evaluate("co_variable", Q)
Call_ch == \E Q \in QArgs : Evaluate("ch", Q)
Call_reorder_point == \E lead_time \in QArgs : Evaluate("reorder_point", lead_time)

Next ==
    \/ Call_compute_eoq
    \/ Call_coverage
    \/ Call_average_inventory
    \/ Call_itr
    \/ Call_sensitivity_to_Q
    \/ Iterate
    \/ Return
    \/ Call_relevant_cost
    \/ Call_cost
    \/ Call_co_fixed
    \/ Call_co_variable
    \/ Call_ch
    \/ Call_reorder_point

Spec == Init /\ [][Next]_vars

\* minimize() runs inside one synchronous call: a running search takes its
\* next step.  Iterate \/ Return is enabled exactly when pc = "search" (their
\* guards are complementary and both change vars), so this is
\* WF_vars(Iterate \/ Return) written without ENABLED.
FairSpec == Spec /\ ([]<>(pc # "search") \/ []<><<Iterate \/ Return>>_vars)

----------------------------------------------------------------------------
(* Properties.                                                             *)

SearchOps == {"compute_eoq", "coverage", "average_inventory", "itr", "sensitivity_to_Q"}
CostOps == {"co_fixed", "co_variable", "ch", "relevant_cost", "cost"}

\* the instance is valid: K > 0, h > 0, d > 0
Valid == Sign(K) > 0 /\ Sign(h) > 0 /\ Sign(d) > 0

Sq(a) == RMul(a, a)

\* |a - b| <= tol * |b|
WithinRel(a, b, tol) == RLeq(RAbs(RSub(a, b)), RMul(tol, RAbs(b)))

\* |x - sqrt(S)| <= tol * sqrt(S), for S >= 0 and 0 < tol < 1
NearSqrt(x, S, tol) ==
    /\ Sign(x) > 0
    /\ RLeq(RMul(Sq(RSub(One, tol)), S), Sq(x))
    /\ RLeq(Sq(x), RMul(Sq(RAdd(One, tol)), S))

\* 2*K*d/h, the square of the closed-form optimum
ClosedFormSq == RDiv(RMul(Two, RMul(K, d)), h)

(* C1: for K, h, d > 0, compute_eoq() returns sqrt(2*K*d/h) within relative *)
(* error 1e-6.                                                             *)
C1_EoqIsClosedForm ==
    (ret.op = "compute_eoq" /\ ret.ok /\ Valid) => NearSqrt(ret.val, ClosedFormSq, Eps6)

(* C2: when the minimization stops without converging, the method that ran *)
(* it raises an error and returns no value.                                *)
C2_NonConvergenceIsFatal ==
    (ret.op \in SearchOps /\ res.set /\ res.status # 0) => ~ret.ok

(* C3: a cost evaluator called with Q <= 0, or on an instance whose K, h or *)
(* d is <= 0, raises an error and returns no value.                        *)
C3_InvalidInputRaises ==
    (ret.op \in CostOps /\ (Sign(ret.arg) <= 0 \/ ~Valid)) => ~ret.ok

Mirror(Q) == RDiv(Sq(Qopt.val), Q)

(* C5: with Qopt = compute_eoq() on an instance with K, h, d > 0:          *)
(* sensitivity_to_Q(Qopt) is 1, sensitivity_to_Q(Q) > 1 for every Q > 0    *)
(* other than Qopt, and sensitivity_to_Q(Qopt*k) = sensitivity_to_Q(Qopt/k). *)
C5_SensitivityShape ==
    (ret.op = "sensitivity_to_Q" /\ ret.ok /\ Valid /\ Qopt.set) =>
        /\ REq(ret.arg, Qopt.val) => REq(ret.val, One)
        /\ (Sign(ret.arg) > 0 /\ ~REq(ret.arg, Qopt.val)) => RLess(One, ret.val)
        /\ REq(ret.val, sensitivity_to_Q(Mirror(ret.arg), Qopt.val))

(* C6: for K, h, d > 0 and Q > 0, sensitivity_to_Q(Q) is the ratio         *)
(* relevant_cost(Q) / relevant_cost(compute_eoq()), here within the        *)
(* relative error 1e-6.                                                    *)
C6_SensitivityIsCostRatio ==
    (ret.op = "sensitivity_to_Q" /\ ret.ok /\ Valid /\ Qopt.set /\ Sign(ret.arg) > 0) =>
        WithinRel(ret.val, RDiv(relevant_cost(ret.arg), relevant_cost(Qopt.val)), Eps6)

(* C7: on one instance, coverage() is compute_eoq()/d and                  *)
(* average_inventory() is compute_eoq()/2 exactly, and                     *)
(* itr() * compute_eoq() is 2*d, each method running its own minimization. *)
C7_MetricsAgreeWithEoq ==
    (ret.ok /\ Qopt.set) =>
        /\ ret.op = "coverage" => REq(ret.val, RDiv(Qopt.val, d))
        /\ ret.op = "average_inventory" => REq(ret.val, RDiv(Qopt.val, Two))
        /\ ret.op = "itr" => REq(RMul(ret.val, Qopt.val), RMul(Two, d))

\* itr() has returned on a valid instance after an earlier compute_eoq()
C7_Witness == ret.op = "itr" /\ ret.ok /\ Qopt.set /\ Valid /\ Qopt.status = 0

(* C8: whatever calls were made, K, h, d, v hold the values given at       *)
(* construction, and a call returns what the same call returned before:    *)
(* compute_eoq() its first result, sensitivity_to_Q(Q) the value its       *)
(* formula gives on that result, an evaluator what it gave just before.    *)
C8_StatelessAndIdempotent ==
    /\ <<K, h, d, v>> = ctor
    /\ (ret.op = "compute_eoq" /\ ret.ok /\ Qopt.set) => ret.val = Qopt.val
    /\ (ret.op = "sensitivity_to_Q" /\ ret.ok /\ Qopt.set)
          => ret.val = sensitivity_to_Q(ret.arg, Qopt.val)
    /\ (prev.set /\ ret.ok) => ret.val = prev.val
    /\ (prev.set /\ pc = "idle") => ret.ok

\* after compute_eoq() returned, sensitivity_to_Q(Q) ran a search of its own
\* and returned, on an instance whose fields are not all equal
C8_Witness ==
    /\ ret.op = "sensitivity_to_Q" /\ ret.ok /\ Qopt.set
    /\ res.set /\ res.nit > 1 /\ K # h

\* minimize() is inside its loop
Searching == pc = "search"

(* C9: a call of compute_eoq() finishes: every step of a running search    *)
(* either ends it or adds one to an iteration count that never exceeds     *)
(* maxiter, with at most maxfun + 2 evaluations, and a started search      *)
(* eventually returns.                                                     *)
C9_SearchTerminates ==
    /\ [][Searching => \/ pc' = "idle"
                       \/ /\ iterations' = iterations + 1
                          /\ iterations' <= maxiter
                          /\ fcalls' > fcalls
                          /\ fcalls' <= maxfun + 2]_vars
    /\ (Searching ~> pc = "idle")

\* a search ran out of its budget of evaluations and the call returned
C9_Witness == pc = "idle" /\ res.set /\ res.status = 1 /\ res.nfev >= maxfun

(* C10: for K, h, d > 0 the search evaluates relevant_cost only at         *)
(* quantities > 0 and returns a quantity > 0.                              *)
C10_SearchStaysPositive ==
    Valid => /\ \A i \in DOMAIN probes : Sign(probes[i]) > 0
             /\ res.set => Sign(res.x) > 0

====
